---- MODULE Spec2Model ----
(***************************************************************************)
(* Model of mip/highs.py: the python-mip adapter SolverHighs for the HiGHS *)
(* solver.  The adapter keeps one opaque native handle, forwards each      *)
(* operation to foreign calls declared in HEADER, and keeps its own name   *)
(* registries.  The native model behind the handle is modelled by what the *)
(* declared foreign functions do to it: columns (lower, upper, cost,       *)
(* integrality), rows (lower, upper, sparse entries), offset and sense.    *)
(* Column and row indices are zero-based as in the code; index i lives at  *)
(* position i + 1 of the TLA+ sequences.                                   *)
(***************************************************************************)
EXTENDS Integers, Sequences, FiniteSets, TLC

\* ------------------------------------------------------------------------
\* Bounds of the exploration.
MaxCols == 2
MaxRows == 1
MaxAdapters == 2

\* ------------------------------------------------------------------------
\* Constants of the program.
\* mip.INF (float("inf")); a number larger than every finite value drawn.
INF == 99
kHighsObjSenseMinimize == 1
kHighsObjSenseMaximize == -1
kHighsVarTypeContinuous == 0
kHighsVarTypeInteger == 1
\* the front-end's vocabulary (mip.CONTINUOUS, mip.MINIMIZE, ...)
CONTINUOUS == "C"
INTEGER == "I"
BINARY == "B"
MINIMIZE == "MIN"
MAXIMIZE == "MAX"
LESS_OR_EQUAL == "<"
GREATER_OR_EQUAL == ">"
EQUAL == "="
\* the handle value of a failed Highs_create (a null void pointer)
NULL == 0

VARIABLES
    model,      \* the native model behind self._model
    var_name,   \* self._var_name : list of names, position = column index
    var_col,    \* self._var_col  : dict name -> column index
    cons_name,  \* self._cons_name: list of names, position = row index
    cons_col,   \* self._cons_col : dict name -> row index
    call,       \* the last adapter call: its name, arguments and outcome
    has_highs,  \* module level: "unset" before import, then "True" / "False"
    load_cause, \* why loading ended as it did
    adapter,    \* per adapter object: construction position, _lib, _model
    handles,    \* native side: handle id -> "live" / "destroyed"
    foreign     \* foreign calls made so far, summarised per adapter

vars == <<model, var_name, var_col, cons_name, cons_col, call,
          has_highs, load_cause, adapter, handles, foreign>>

modelVars == <<model, var_name, var_col, cons_name, cons_col, call>>
lifeVars == <<has_highs, load_cause, adapter, handles, foreign>>

\* ------------------------------------------------------------------------
\* The native library, as declared in HEADER.  Every function returns a
\* status the adapter discards.  A call on a live handle with arguments in
\* range does what its name says; a call with an out-of-range column changes
\* nothing.

EmptyModel ==
    [col |-> <<>>, row |-> <<>>, offset |-> 0, sense |-> kHighsObjSenseMinimize]

Highs_getNumCol(h) == Len(h.col)

Highs_getNumRow(h) == Len(h.row)

Highs_addVar(h, lower, upper) ==
    [h EXCEPT !.col = Append(@, [lower |-> lower, upper |-> upper, cost |-> 0,
                                 integrality |-> kHighsVarTypeContinuous])]

ValidCol(h, c) == c >= 0 /\ c < Len(h.col)

Highs_changeColCost(h, c, cost) ==
    IF ValidCol(h, c) THEN [h EXCEPT !.col[c + 1].cost = cost] ELSE h

Highs_changeColIntegrality(h, c, integrality) ==
    IF ValidCol(h, c) THEN [h EXCEPT !.col[c + 1].integrality = integrality] ELSE h

\* integrality[k] is the flag of column from_col + k - 1
Highs_changeColsIntegralityByRange(h, from_col, to_col, integrality) ==
    IF from_col >= 0 /\ to_col < Len(h.col) /\ from_col <= to_col
    THEN [h EXCEPT !.col =
            [i \in 1..Len(h.col) |->
                IF i - 1 >= from_col /\ i - 1 <= to_col
                THEN [h.col[i] EXCEPT !.integrality = integrality[i - from_col]]
                ELSE h.col[i]]]
    ELSE h

Highs_addRow(h, lower, upper, num_new_nz, index, value) ==
    [h EXCEPT !.row = Append(@, [lower |-> lower, upper |-> upper,
                                 index |-> SubSeq(index, 1, num_new_nz),
                                 value |-> SubSeq(value, 1, num_new_nz)])]

Highs_changeObjectiveOffset(h, offset) == [h EXCEPT !.offset = offset]

Highs_changeObjectiveSense(h, sense) == [h EXCEPT !.sense = sense]

Highs_getObjectiveOffset(h) == h.offset

Highs_getObjectiveSense(h) == h.sense

\* costs[] as filled by Highs_getColsByRange(0, n - 1)
Highs_getColsByRange_costs(h) == [i \in 1..Len(h.col) |-> h.col[i].cost]

\* ------------------------------------------------------------------------
\* Python helpers.

\* d.setdefault(k, v): an existing key keeps its value
DictSetDefault(d, k, v) ==
    [x \in (DOMAIN d) \cup {k} |-> IF x \in DOMAIN d THEN d[x] ELSE v]

\* d[k] = v on a dict
DictSet(d, k, v) == [x \in (DOMAIN d) \cup {k} |-> IF x = k THEN v ELSE d[x]]

EmptyDict == [x \in {} |-> 0]

\* [f(x) for x in s]
RECURSIVE SeqMapIdx(_)
SeqMapIdx(s) == IF s = <<>> THEN <<>> ELSE <<Head(s).idx>> \o SeqMapIdx(Tail(s))

RECURSIVE SeqMapCoef(_)
SeqMapCoef(s) == IF s = <<>> THEN <<>> ELSE <<Head(s).coef>> \o SeqMapCoef(Tail(s))

\* ------------------------------------------------------------------------
\* Queries of the adapter.

num_cols == Highs_getNumCol(model)

num_rows == Highs_getNumRow(model)

\* "raise" stands for the IndexError / KeyError of a failed lookup
list_get(names, idx) ==
    IF idx >= 0 /\ idx < Len(names) THEN names[idx + 1] ELSE "raise"

dict_get(d, name) == IF name \in DOMAIN d THEN d[name] ELSE -1

var_get_name(idx) == list_get(var_name, idx)

var_get_index(name) == dict_get(var_col, name)

\* both are "pass": they return None whatever the registry holds
constr_get_name(idx) == "None"

constr_get_index(name) == -1

sense_map_get(s) ==
    IF s = kHighsObjSenseMaximize THEN MAXIMIZE ELSE MINIMIZE

get_objective_sense == sense_map_get(Highs_getObjectiveSense(model))

get_objective_const == Highs_getObjectiveOffset(model)

\* xsum(costs[i] * vars[i] for i in range(n) if costs[i] != 0.0)
RECURSIVE xsum_costs(_, _)
xsum_costs(costs, i) ==
    IF i > Len(costs) THEN <<>>
    ELSE (IF costs[i] # 0 THEN <<[idx |-> i - 1, coef |-> costs[i]]>> ELSE <<>>)
         \o xsum_costs(costs, i + 1)

get_objective ==
    [expr |-> xsum_costs(Highs_getColsByRange_costs(model), 1),
     const |-> get_objective_const,
     sense |-> get_objective_sense]

\* ------------------------------------------------------------------------
\* Operations of the adapter on one constructed adapter.  A linear expression
\* is [expr, const, sense]; expr is the dict of the front end, a sequence of
\* [idx, coef] items with distinct idx in insertion order.

\* add_var reading the column count after Highs_addVar instead of before
add_var_model_late_col(h, obj, lb, ub, var_type) ==
    LET h1 == Highs_addVar(h, lb, ub)
        col == Highs_getNumCol(h1)
        h2 == Highs_changeColCost(h1, col, obj)
    IN  IF var_type # CONTINUOUS
        THEN Highs_changeColIntegrality(h2, col, kHighsVarTypeInteger)
        ELSE h2

\* the native model after add_var's three foreign calls
add_var_model(h, obj, lb, ub, var_type) ==
    LET col == Highs_getNumCol(h)
        h1 == Highs_addVar(h, lb, ub)
        h2 == Highs_changeColCost(h1, col, obj)
    IN  IF var_type # CONTINUOUS
        THEN Highs_changeColIntegrality(h2, col, kHighsVarTypeInteger)
        ELSE h2

add_var(obj, lb, ub, var_type, name) ==
    LET col == num_cols
    IN  /\ model' = add_var_model(model, obj, lb, ub, var_type)
        /\ var_name' = Append(var_name, name)
        /\ var_col' = DictSet(var_col, name, col)
        /\ call' = [op |-> "add_var", obj |-> obj, lb |-> lb, ub |-> ub,
                    var_type |-> var_type, name |-> name, result |-> "ok"]
        /\ UNCHANGED <<cons_name, cons_col>>

\* the lower bound with the two inequality senses confused
add_constr_lower_swapped(lin_expr) ==
    IF lin_expr.sense = GREATER_OR_EQUAL THEN -INF ELSE -lin_expr.const

\* the two-sided bound pair of a constraint
add_constr_lower(lin_expr) ==
    IF lin_expr.sense = LESS_OR_EQUAL THEN -INF ELSE -lin_expr.const

add_constr_upper(lin_expr) ==
    IF lin_expr.sense = LESS_OR_EQUAL THEN -lin_expr.const
    ELSE IF lin_expr.sense = GREATER_OR_EQUAL THEN INF
    ELSE -lin_expr.const

add_constr_model(h, lin_expr) ==
    LET num_new_nz == Len(lin_expr.expr)
        index == SeqMapIdx(lin_expr.expr)
        value == SeqMapCoef(lin_expr.expr)
    IN  Highs_addRow(h, add_constr_lower(lin_expr), add_constr_upper(lin_expr),
                     num_new_nz, index, value)

add_constr(lin_expr, name) ==
    LET row == num_rows
    IN  IF lin_expr.sense \in {LESS_OR_EQUAL, GREATER_OR_EQUAL, EQUAL}
        THEN /\ model' = add_constr_model(model, lin_expr)
             /\ cons_name' = Append(cons_name, name)
             /\ cons_col' = DictSet(cons_col, name, row)
             /\ call' = [op |-> "add_constr", lin_expr |-> lin_expr,
                         name |-> name, result |-> "ok"]
             /\ UNCHANGED <<var_name, var_col>>
        ELSE \* the assert of the else branch fails before any foreign call
             /\ call' = [op |-> "add_constr", lin_expr |-> lin_expr,
                         name |-> name, result |-> "AssertionError"]
             /\ UNCHANGED <<model, var_name, var_col, cons_name, cons_col>>

\* sense_map of set_objective_sense; a missing key raises KeyError
sense_map_has(sense) == sense \in {MAXIMIZE, MINIMIZE}

sense_map_set(sense) ==
    IF sense = MAXIMIZE THEN kHighsObjSenseMaximize ELSE kHighsObjSenseMinimize

set_objective_sense_model(h, sense) ==
    IF sense_map_has(sense)
    THEN Highs_changeObjectiveSense(h, sense_map_set(sense))
    ELSE h

set_objective_sense(sense) ==
    /\ model' = set_objective_sense_model(model, sense)
    /\ call' = [op |-> "set_objective_sense", sense |-> sense,
                result |-> IF sense_map_has(sense) THEN "ok" ELSE "KeyError"]
    /\ UNCHANGED <<var_name, var_col, cons_name, cons_col>>

set_objective_const_model(h, const) == Highs_changeObjectiveOffset(h, const)

set_objective_const(const) ==
    /\ model' = set_objective_const_model(model, const)
    /\ call' = [op |-> "set_objective_const", const |-> const, result |-> "ok"]
    /\ UNCHANGED <<var_name, var_col, cons_name, cons_col>>

\* for var, coef in lin_expr.expr.items(): Highs_changeColCost(var.idx, coef)
RECURSIVE set_objective_costs(_, _)
set_objective_costs(h, items) ==
    IF items = <<>> THEN h
    ELSE set_objective_costs(
            Highs_changeColCost(h, Head(items).idx, Head(items).coef), Tail(items))

set_objective_model(h, lin_expr) ==
    set_objective_sense_model(
        set_objective_const_model(set_objective_costs(h, lin_expr.expr),
                                  lin_expr.const),
        lin_expr.sense)

set_objective(lin_expr) ==
    /\ model' = set_objective_model(model, lin_expr)
    /\ call' = [op |-> "set_objective", lin_expr |-> lin_expr,
                result |-> IF sense_map_has(lin_expr.sense) THEN "ok" ELSE "KeyError"]
    /\ UNCHANGED <<var_name, var_col, cons_name, cons_col>>

\* relax with the range ending one column early
relax_model_short(h) ==
    LET n == Highs_getNumCol(h)
        integrality == [i \in 1..n |-> kHighsVarTypeContinuous]
    IN  Highs_changeColsIntegralityByRange(h, 0, n - 2, integrality)

relax_model(h) ==
    LET n == Highs_getNumCol(h)
        integrality == [i \in 1..n |-> kHighsVarTypeContinuous]
    IN  Highs_changeColsIntegralityByRange(h, 0, n - 1, integrality)

\* the columns of kind integer
IntegerCols(h) ==
    {i \in 0..(Len(h.col) - 1) : h.col[i + 1].integrality = kHighsVarTypeInteger}

\* call.ints remembers how many integer columns relax() found
relax ==
    /\ model' = relax_model(model)
    /\ call' = [op |-> "relax", ints |-> Cardinality(IntegerCols(model)),
                result |-> "ok"]
    /\ UNCHANGED <<var_name, var_col, cons_name, cons_col>>

\* Stubs of the contract whose body is "raise NotImplementedError()".
RaisingOps ==
    {"add_lazy_constr", "add_sos", "add_cut", "generate_cuts", "clique_merge",
     "get_log", "get_objective_value_i", "set_start", "get_pump_passes",
     "set_pump_passes", "var_get_branch_priority", "var_set_branch_priority",
     "cgraph_density", "conflicting", "conflicting_nodes", "feature_values",
     "feature_names"}

\* Stubs of the contract whose body is "pass" and that the contract means to
\* change the model or the search.
SilentOps ==
    {"optimize", "set_processing_limits", "set_max_seconds", "set_max_solutions",
     "set_max_nodes", "set_num_threads", "write", "read", "set_emphasis",
     "set_cutoff", "set_mip_gap_abs", "set_mip_gap", "set_verbose",
     "constr_set_expr", "constr_set_rhs", "remove_constrs", "var_set_lb",
     "var_set_ub", "var_set_obj", "var_set_var_type", "var_set_column",
     "remove_vars"}

\* remove_vars forwarded to the native model without touching the registry
stub_model_removing(h, op) ==
    IF op = "remove_vars" /\ Len(h.col) > 0
    THEN [h EXCEPT !.col = SubSeq(@, 1, Len(@) - 1)]
    ELSE h

\* what a stub does to the native model and to the list of names: nothing
stub_model(h, op) == h

stub_names(names, op) == names

raise_not_implemented(op) ==
    /\ model' = stub_model(model, op)
    /\ var_name' = stub_names(var_name, op)
    /\ cons_name' = stub_names(cons_name, op)
    /\ call' = [op |-> op, result |-> "NotImplementedError"]
    /\ UNCHANGED <<var_col, cons_col>>

pass_silently(op) ==
    /\ model' = stub_model(model, op)
    /\ var_name' = stub_names(var_name, op)
    /\ cons_name' = stub_names(cons_name, op)
    /\ call' = [op |-> op, result |-> "ok"]
    /\ UNCHANGED <<var_col, cons_col>>

\* ------------------------------------------------------------------------
\* Module import (the try / except around the library lookup) and the life
\* of adapter objects.  An adapter object is [pc, lib, model, err]:
\*   pc    "unborn" | "constructed" | "failed" (__init__ raised) |
\*         "finalized" (__del__ has run) | "crashed" (the process died)
\*   lib   self._lib has been assigned
\*   model self._model: UNSET (no attribute), NULL, or a handle id >= 1
\*   err   the exception __init__ raised, "" if none
UNSET == NULL - 1

Adapters == 1..MaxAdapters

\* the exception the try block raises, "" if it reaches has_highs = True
load_error(env_set, highspy_ok, linux, matches, dlopen_ok) ==
    IF env_set
    THEN (IF dlopen_ok THEN "" ELSE "OSError")
    ELSE IF ~highspy_ok THEN "ImportError"
    ELSE IF ~linux THEN "NotImplementedError"
    ELSE IF matches # 1 THEN "ValueError"
    ELSE IF dlopen_ok THEN "" ELSE "OSError"

\* has_highs after the try / except
load_has_highs(error) == IF error = "" THEN "True" ELSE "False"

import_module(env_set, highspy_ok, linux, matches, dlopen_ok) ==
    LET error == load_error(env_set, highspy_ok, linux, matches, dlopen_ok)
    IN  /\ has_highs = "unset"
        /\ has_highs' = load_has_highs(error)
        /\ load_cause' = [env |-> env_set, error |-> error]
        /\ UNCHANGED <<adapter, handles, foreign>>

Crashed == \E a \in Adapters : adapter[a].pc = "crashed"

FreshHandle == Cardinality(DOMAIN handles) + 1

HandleLive(h) == h \in DOMAIN handles /\ handles[h] = "live"

NoCalls == [create |-> 0, destroy |-> 0, used |-> FALSE, invalid |-> {}]

\* a foreign call fn by adapter a with handle h: remembered when h is not live
ForeignUse(f, a, fn, h) ==
    IF HandleLive(h) THEN f ELSE [f EXCEPT ![a].invalid = @ \cup {fn}]

\* __init__ without the availability check
init_never_raises_not_found(has) == FALSE

\* "if not has_highs: raise FileNotFoundError"
init_raises_not_found(has) == has # "True"

\* __init__(model, name, sense).  create_ok: Highs_create returned a handle;
\* survives: a foreign call on a null handle returned instead of ending the
\* process.
init(a, sense, create_ok, survives) ==
    /\ has_highs # "unset"
    /\ ~Crashed
    /\ adapter[a].pc = "unborn"
    /\ UNCHANGED <<has_highs, load_cause>>
    /\ IF init_raises_not_found(has_highs)
       THEN /\ adapter' = [adapter EXCEPT ![a].pc = "failed",
                                          ![a].err = "FileNotFoundError"]
            /\ UNCHANGED <<handles, foreign>>
       ELSE LET h == IF create_ok THEN FreshHandle ELSE NULL
                hs == IF create_ok THEN DictSet(handles, h, "live") ELSE handles
                f1 == [foreign EXCEPT ![a].create = @ + 1]
            IN  IF ~sense_map_has(sense)
                THEN \* sense_map[sense] raises before the foreign call
                     /\ adapter' = [adapter EXCEPT ![a] =
                            [pc |-> "failed", lib |-> TRUE, model |-> h,
                             err |-> "KeyError"]]
                     /\ handles' = hs
                     /\ foreign' = f1
                ELSE /\ handles' = hs
                     /\ foreign' = [f1 EXCEPT ![a].invalid =
                            IF create_ok THEN @
                            ELSE @ \cup {"Highs_changeObjectiveSense"}]
                     /\ adapter' = [adapter EXCEPT ![a] =
                            [pc |-> IF create_ok \/ survives
                                    THEN "constructed" ELSE "crashed",
                             lib |-> TRUE, model |-> h, err |-> ""]]

\* any method of a constructed adapter that makes a foreign call on
\* self._model (num_cols, add_var, relax, ...)
use(a, survives) ==
    /\ ~Crashed
    /\ adapter[a].pc = "constructed"
    /\ foreign' = [ForeignUse(foreign, a, "Highs_getNumCol", adapter[a].model)
                     EXCEPT ![a].used = TRUE]
    /\ adapter' = IF HandleLive(adapter[a].model) \/ survives THEN adapter
                  ELSE [adapter EXCEPT ![a].pc = "crashed"]
    /\ UNCHANGED <<has_highs, load_cause, handles>>

\* __del__, when the object is dropped: after __init__ raised, or when the
\* caller discards a constructed adapter.  Without self._lib the attribute
\* lookup raises and no foreign call is made.
del(a) ==
    /\ ~Crashed
    /\ adapter[a].pc \in {"constructed", "failed"}
    /\ adapter' = [adapter EXCEPT ![a].pc = "finalized"]
    /\ UNCHANGED <<has_highs, load_cause>>
    /\ IF ~adapter[a].lib
       THEN UNCHANGED <<handles, foreign>>
       ELSE LET h == adapter[a].model
            IN  /\ foreign' = [ForeignUse(foreign, a, "Highs_destroy", h)
                                 EXCEPT ![a].destroy = @ + 1]
                /\ handles' = IF HandleLive(h)
                              THEN [handles EXCEPT ![h] = "destroyed"]
                              ELSE handles

\* ------------------------------------------------------------------------
\* Inputs.

\* the index sequences of a dict over columns 0..n-1: distinct indices, in
\* any insertion order
IdxSeqs(n) ==
    {s \in UNION {[1..k -> 0..(n - 1)] : k \in 0..n} :
        \A i, j \in 1..Len(s) : i # j => s[i] # s[j]}

\* the subsets of the columns, each in ascending order
AscIdxSeqs(n) == {s \in IdxSeqs(n) : \A i, j \in 1..Len(s) : i < j => s[i] < s[j]}

ItemsOver(idxs, Coefs) ==
    UNION {{[i \in 1..Len(s) |-> [idx |-> s[i], coef |-> c[i]]] :
                c \in [1..Len(s) -> Coefs]} : s \in idxs}

LinExprs(idxs, Coefs, Consts, Senses) ==
    [expr : ItemsOver(idxs, Coefs), const : Consts, sense : Senses]

\* x0 + ... + x(n-1) <= 10, the constraint of the example scenario
SumLeq10(n) ==
    [expr |-> [i \in 1..n |-> [idx |-> i - 1, coef |-> 1]], const |-> -10,
     sense |-> LESS_OR_EQUAL]

\* 3*x0 + ... + 3*x(n-1) + 5, to be maximised
Max3Plus5(n) ==
    [expr |-> [i \in 1..n |-> [idx |-> i - 1, coef |-> 3]], const |-> 5,
     sense |-> MAXIMIZE]

\* the empty expression, to be minimised
MinZero == [expr |-> <<>>, const |-> 0, sense |-> MINIMIZE]

\* the dicts over columns 0..n-1 in which column i has coefficient i - 2
\* (so -2, -1, 0), in any insertion order
RowItems(n) ==
    {[i \in 1..Len(s) |-> [idx |-> s[i], coef |-> s[i] - 2]] : s \in IdxSeqs(n)}

\* ------------------------------------------------------------------------
\* The steps of one constructed adapter, with the sets their arguments are
\* drawn from.

OneConstructed ==
    /\ has_highs = "True"
    /\ load_cause = [env |-> FALSE, error |-> ""]
    /\ adapter = [a \in Adapters |->
            IF a = 1
            THEN [pc |-> "constructed", lib |-> TRUE, model |-> 1, err |-> ""]
            ELSE [pc |-> "unborn", lib |-> FALSE, model |-> UNSET, err |-> ""]]
    /\ handles = DictSet(EmptyDict, 1, "live")
    /\ foreign = [a \in Adapters |->
            IF a = 1 THEN [NoCalls EXCEPT !.create = 1] ELSE NoCalls]

\* the state after SolverHighs(model, name, sense) returned
Init ==
    /\ \E sense \in {MINIMIZE, MAXIMIZE} :
            model = set_objective_sense_model(EmptyModel, sense)
    /\ var_name = <<>>
    /\ var_col = EmptyDict
    /\ cons_name = <<>>
    /\ cons_col = EmptyDict
    /\ call = [op |-> "__init__", result |-> "ok"]
    /\ OneConstructed

AddVar(Objs, Bounds, Types, Names) ==
    /\ num_cols < MaxCols
    /\ \E obj \in Objs, b \in Bounds, t \in Types, name \in Names :
            add_var(obj, b[1], b[2], t, name)
    /\ UNCHANGED lifeVars

AddConstr(Exprs, Names) ==
    /\ num_rows < MaxRows
    /\ \E e \in Exprs, name \in Names : add_constr(e, name)
    /\ UNCHANGED lifeVars

SetObjective(Exprs) ==
    /\ \E e \in Exprs : set_objective(e)
    /\ UNCHANGED lifeVars

SetObjectiveConst(Consts) ==
    /\ \E c \in Consts : set_objective_const(c)
    /\ UNCHANGED lifeVars

SetObjectiveSense(Senses) ==
    /\ \E sense \in Senses : set_objective_sense(sense)
    /\ UNCHANGED lifeVars

Relax ==
    /\ relax
    /\ UNCHANGED lifeVars

RaiseNotImplemented(Ops) ==
    /\ \E op \in Ops : raise_not_implemented(op)
    /\ UNCHANGED lifeVars

PassSilently(Ops) ==
    /\ \E op \in Ops : pass_silently(op)
    /\ UNCHANGED lifeVars

\* ------------------------------------------------------------------------
\* Spec: columns in full (cost, bounds, kind), the rest with few inputs.

Next ==
    \/ AddVar({0, 2}, {<<0, INF>>, <<-INF, 1>>}, {CONTINUOUS, INTEGER, BINARY},
              {"x"})
    \/ AddConstr({SumLeq10(num_cols)}, {"c"})
    \/ SetObjective({Max3Plus5(num_cols), MinZero})
    \/ SetObjectiveConst({5})
    \/ SetObjectiveSense({MINIMIZE, MAXIMIZE})
    \/ Relax
    \/ RaiseNotImplemented({"add_cut", "var_set_branch_priority"})
    \/ PassSilently({"var_set_var_type", "remove_vars"})

Spec == Init /\ [][Next]_vars

\* ------------------------------------------------------------------------
\* SpecObj: objectives in full (any subset of the columns, zero and nonzero
\* coefficients, constant, sense), columns that differ in their cost only.

NextObj ==
    \/ AddVar({0, 2}, {<<0, INF>>}, {CONTINUOUS}, {"x"})
    \/ AddConstr({SumLeq10(num_cols)}, {"c"})
    \/ SetObjective(LinExprs(AscIdxSeqs(num_cols), {0, 3}, {0, 5},
                             {MINIMIZE, MAXIMIZE, ""}))
    \/ SetObjectiveConst({0, 5})
    \/ SetObjectiveSense({MINIMIZE, MAXIMIZE, ""})
    \/ Relax
    \/ RaiseNotImplemented({"set_start"})
    \/ PassSilently({"var_set_obj"})

SpecObj == Init /\ [][NextObj]_vars

\* ------------------------------------------------------------------------
\* SpecReg: names in full (empty, repeated, distinct), columns that differ in
\* their kind only, objectives without coefficients.

NextReg ==
    \/ AddVar({0}, {<<0, INF>>}, {CONTINUOUS, INTEGER}, {"", "a", "b"})
    \/ AddConstr({SumLeq10(num_cols)}, {"", "c"})
    \/ SetObjective({MinZero})
    \/ SetObjectiveConst({5})
    \/ SetObjectiveSense({MINIMIZE})
    \/ Relax
    \/ RaiseNotImplemented({"add_sos"})
    \/ PassSilently({"remove_vars", "remove_constrs"})

SpecReg == Init /\ [][NextReg]_vars

\* ------------------------------------------------------------------------
\* SpecStubs: every stub of the contract, on columns that differ in cost and
\* kind, with rows, an offset and either sense.

NextStubs ==
    \/ AddVar({0, 2}, {<<0, INF>>}, {CONTINUOUS, INTEGER}, {"x"})
    \/ AddConstr({SumLeq10(num_cols)}, {"c"})
    \/ SetObjective({MinZero})
    \/ SetObjectiveConst({5})
    \/ SetObjectiveSense({MAXIMIZE})
    \/ Relax
    \/ RaiseNotImplemented(RaisingOps)
    \/ PassSilently(SilentOps)

SpecStubs == Init /\ [][NextStubs]_vars

\* ------------------------------------------------------------------------
\* SpecRows: constraints in full (every sense, zero and nonzero constant,
\* any dict over the columns), columns that are all alike.

NextRows ==
    \/ AddVar({0}, {<<0, INF>>}, {CONTINUOUS}, {"x"})
    \/ AddConstr([expr : RowItems(num_cols), const : {0, -10},
                  sense : {LESS_OR_EQUAL, GREATER_OR_EQUAL, EQUAL, ""}], {"c"})
    \/ SetObjective({Max3Plus5(num_cols)})
    \/ SetObjectiveConst({5})
    \/ SetObjectiveSense({MAXIMIZE})
    \/ Relax
    \/ RaiseNotImplemented({"add_lazy_constr"})
    \/ PassSilently({"constr_set_rhs", "remove_constrs"})

SpecRows == Init /\ [][NextRows]_vars

\* ------------------------------------------------------------------------
\* SpecLife: module import, then adapters constructed, used and dropped.

InitLife ==
    /\ model = EmptyModel
    /\ var_name = <<>>
    /\ var_col = EmptyDict
    /\ cons_name = <<>>
    /\ cons_col = EmptyDict
    /\ call = [op |-> "", result |-> ""]
    /\ has_highs = "unset"
    /\ load_cause = [env |-> FALSE, error |-> ""]
    /\ adapter = [a \in Adapters |->
            [pc |-> "unborn", lib |-> FALSE, model |-> UNSET, err |-> ""]]
    /\ handles = EmptyDict
    /\ foreign = [a \in Adapters |-> NoCalls]

ImportModule ==
    /\ \E env_set, highspy_ok, linux, dlopen_ok \in BOOLEAN, matches \in 0..2 :
            import_module(env_set, highspy_ok, linux, matches, dlopen_ok)
    /\ UNCHANGED modelVars

Construct ==
    /\ \E a \in Adapters, sense \in {MINIMIZE, MAXIMIZE, ""},
          create_ok, survives \in BOOLEAN :
            init(a, sense, create_ok, survives)
    /\ UNCHANGED modelVars

Use ==
    /\ \E a \in Adapters, survives \in BOOLEAN : use(a, survives)
    /\ UNCHANGED modelVars

Drop ==
    /\ \E a \in Adapters : del(a)
    /\ UNCHANGED modelVars

NextLife ==
    \/ ImportModule
    \/ Construct
    \/ Use
    \/ Drop

SpecLife == InitLife /\ [][NextLife]_vars

\* ------------------------------------------------------------------------
\* Properties.

Cols == 0..(num_cols - 1)

Rows == 0..(num_rows - 1)

\* the index of the last add_var call that passed name
LastIndexOf(names, name) ==
    CHOOSE i \in 0..(Len(names) - 1) :
        /\ names[i + 1] = name
        /\ \A j \in (i + 1)..(Len(names) - 1) : names[j + 1] # name

\* the nonzero coefficients of a dict of items, as a set of pairs
NonZero(items) ==
    {<<items[k].idx, items[k].coef>> : k \in {k \in 1..Len(items) : items[k].coef # 0}}

AllContinuous(h) == IntegerCols(h) = {}

\* C1 as stated: after add_var calls with arbitrary (also repeated) names the
\* registry is as long as num_cols() and var_get_index(var_get_name(i)) = i
\* for every column i.
C1_AsClaimed ==
    /\ Len(var_name) = num_cols
    /\ \A i \in Cols : var_get_index(var_get_name(i)) = i

\* C1 amended: every step keeps the registry as long as num_cols(); add_var
\* puts its name at the new column index and leaves the earlier names alone;
\* var_get_index(name) is the index of the last add_var call that passed
\* name, so var_get_index(var_get_name(i)) = i exactly when no later column
\* has the name of column i.
C1_Registry ==
    [][/\ Len(var_name') = num_cols'
       /\ call'.op = "add_var" =>
            /\ num_cols' = num_cols + 1
            /\ list_get(var_name', num_cols) = call'.name
       /\ \A i \in Cols : list_get(var_name', i) = var_get_name(i)
       /\ \A i \in 0..(num_cols' - 1) :
            LET name == list_get(var_name', i)
            IN  /\ dict_get(var_col', name) = LastIndexOf(var_name', name)
                /\ (dict_get(var_col', name) = i) <=>
                        (\A j \in (i + 1)..(num_cols' - 1) :
                                list_get(var_name', j) # name)
      ]_vars

\* two columns share a name (here the default empty name) after add_var
C1_Witness ==
    /\ call.op = "add_var"
    /\ num_cols = 2
    /\ var_name[1] = ""
    /\ var_name[2] = ""

\* C2 as stated: the constraint registry is as long as num_rows(),
\* constr_get_name(r) is the name passed to the r-th add_constr call and
\* constr_get_index of that name is r.
C2_AsClaimed ==
    /\ Len(cons_name) = num_rows
    /\ \A r \in Rows :
        /\ constr_get_name(r) = cons_name[r + 1]
        /\ constr_get_index(cons_name[r + 1]) = r

\* C3 as stated: after set_objective(e) returned, get_objective() has exactly
\* the nonzero coefficients of e, the constant of e and the sense of e.
C3_AsClaimed ==
    (call.op = "set_objective" /\ call.result = "ok") =>
        /\ NonZero(get_objective.expr) = NonZero(call.lin_expr.expr)
        /\ get_objective.const = call.lin_expr.const
        /\ get_objective.sense = call.lin_expr.sense

\* C4: the row add_constr sends to Highs_addRow has lower = upper = -c for
\* EQUAL, lower = -INF and upper = -c for LESS_OR_EQUAL, lower = -c and
\* upper = INF for GREATER_OR_EQUAL, and its sparse entries are the (index,
\* coefficient) pairs of the expression, as many as the expression has.
C4_RowBounds ==
    (call.op = "add_constr" /\ call.result = "ok") =>
        LET e == call.lin_expr
            r == model.row[num_rows]
        IN  /\ e.sense = EQUAL => r.lower = -e.const /\ r.upper = -e.const
            /\ e.sense = LESS_OR_EQUAL => r.lower = -INF /\ r.upper = -e.const
            /\ e.sense = GREATER_OR_EQUAL => r.lower = -e.const /\ r.upper = INF
            /\ Len(r.index) = Len(e.expr)
            /\ Len(r.value) = Len(e.expr)
            /\ \A k \in 1..Len(e.expr) :
                    r.index[k] = e.expr[k].idx /\ r.value[k] = e.expr[k].coef

\* a >= constraint with a nonzero constant over two columns, the later
\* column first
C4_Witness ==
    /\ call.op = "add_constr"
    /\ call.result = "ok"
    /\ call.lin_expr.sense = GREATER_OR_EQUAL
    /\ call.lin_expr.const = -10
    /\ Len(call.lin_expr.expr) = 2
    /\ call.lin_expr.expr[1].idx = 1

\* C5: after relax() every column is continuous; a relax() right after a
\* relax() changes nothing; no step makes a continuous column integer, and a
\* new column is integer only when add_var was called with a type other than
\* CONTINUOUS.
C5_Relax ==
    [][/\ call'.op = "relax" => AllContinuous(model')
       /\ (call.op = "relax" /\ call'.op = "relax") =>
            /\ model' = model
            /\ <<var_name, var_col, cons_name, cons_col>>' =
                    <<var_name, var_col, cons_name, cons_col>>
       /\ \A i \in Cols :
            (i \notin IntegerCols(model)) =>
                (i < num_cols' /\ i \notin IntegerCols(model'))
       /\ \A i \in 0..(num_cols' - 1) :
            (i >= num_cols /\ i \in IntegerCols(model')) =>
                (call'.op = "add_var" /\ call'.var_type # CONTINUOUS)
      ]_vars

\* relax() ran on a model with two columns, both of them integer
C5_Witness ==
    /\ call.op = "relax"
    /\ call.ints = 2
    /\ num_cols = 2
    /\ AllContinuous(model)

\* C9 as listed in the claim: the stubs that raise and the stubs that pass
ClaimedRaising ==
    {"add_lazy_constr", "add_sos", "add_cut", "generate_cuts", "clique_merge",
     "set_start", "var_get_branch_priority", "var_set_branch_priority"}

ClaimedSilent ==
    {"optimize", "remove_vars", "remove_constrs", "var_set_lb", "var_set_ub",
     "var_set_obj", "var_set_var_type", "constr_set_rhs",
     "set_processing_limits", "set_max_seconds", "set_max_solutions",
     "set_max_nodes"}

\* C9: each listed stub raises NotImplementedError or returns silently as
\* listed, and every stub leaves the native model and both registries as
\* they were, the registries as long as the native counts.
C9_Stubs ==
    [][/\ call'.op \in ClaimedRaising => call'.result = "NotImplementedError"
       /\ call'.op \in ClaimedSilent => call'.result = "ok"
       /\ call'.op \in RaisingOps \cup SilentOps =>
            /\ model' = model
            /\ <<var_name, var_col, cons_name, cons_col>>' =
                    <<var_name, var_col, cons_name, cons_col>>
            /\ Len(var_name') = num_cols'
            /\ Len(cons_name') = num_rows'
      ]_vars

\* remove_vars returned on a model with two columns (one with a cost, the
\* other integer), a row and an offset
C9_Witness ==
    /\ call.op = "remove_vars"
    /\ call.result = "ok"
    /\ num_cols = 2
    /\ num_rows = 1
    /\ Len(var_name) = 2
    /\ IntegerCols(model) = {1}
    /\ model.col[1].cost = 2
    /\ model.offset = 5

\* C10: add_var in a state with n columns adds one column, at index n, with
\* bounds (lb, ub), cost obj, integer exactly when var_type is not
\* CONTINUOUS, and the name at registry position n; the columns 0..n-1, the
\* rows, the offset and the sense stay as they were.
C10_AddVar ==
    [][call'.op = "add_var" =>
        LET n == num_cols
        IN  /\ num_cols' = n + 1
            /\ model'.col[n + 1] =
                    [lower |-> call'.lb, upper |-> call'.ub, cost |-> call'.obj,
                     integrality |-> IF call'.var_type # CONTINUOUS
                                     THEN kHighsVarTypeInteger
                                     ELSE kHighsVarTypeContinuous]
            /\ Len(var_name') = n + 1
            /\ var_name'[n + 1] = call'.name
            /\ SubSeq(model'.col, 1, n) = model.col
            /\ SubSeq(var_name', 1, n) = var_name
            /\ model'.row = model.row
            /\ model'.offset = model.offset
            /\ model'.sense = model.sense
      ]_vars

\* a binary column with cost 2 and bounds (-INF, 1) was added behind an
\* integer column, with a row, an offset and the sense MAXIMIZE in place
C10_Witness ==
    /\ call.op = "add_var"
    /\ call.var_type = BINARY
    /\ call.obj = 2
    /\ call.lb = -INF
    /\ num_cols = 2
    /\ 0 \in IntegerCols(model)
    /\ num_rows = 1
    /\ model.offset = 5
    /\ model.sense = kHighsObjSenseMaximize

\* C6 as stated: every adapter creates its handle once and destroys it once,
\* no foreign call is made with a handle that is not live, and no handle
\* belongs to two adapters.
C6_AsClaimed ==
    /\ \A a \in Adapters :
        /\ foreign[a].create <= 1
        /\ foreign[a].destroy <= 1
        /\ foreign[a].invalid = {}
        /\ adapter[a].pc = "constructed" => HandleLive(adapter[a].model)
        /\ (adapter[a].pc = "finalized" /\ foreign[a].create = 1) =>
                foreign[a].destroy = 1
    /\ \A a, b \in Adapters :
        (a # b /\ adapter[a].model >= 1) => adapter[a].model # adapter[b].model

\* C7: a failed load is recorded as has_highs = False; then every
\* construction fails with FileNotFoundError, no handle exists, and no
\* foreign call (create, sense change, destroy or other) is ever made.
C7_Unavailable ==
    /\ has_highs # "unset" => (has_highs = "False" <=> load_cause.error # "")
    /\ has_highs = "False" =>
        /\ handles = EmptyDict
        /\ \A a \in Adapters :
            /\ adapter[a].pc \in {"unborn", "failed", "finalized"}
            /\ adapter[a].pc # "unborn" => adapter[a].err = "FileNotFoundError"
            /\ adapter[a].model = UNSET
            /\ foreign[a] = NoCalls

\* several binaries matched, a construction failed and the object was dropped
C7_Witness ==
    /\ has_highs = "False"
    /\ load_cause = [env |-> FALSE, error |-> "ValueError"]
    /\ \E a \in Adapters : adapter[a].pc = "finalized"
    /\ \E a \in Adapters : adapter[a].pc = "failed"

\* C8 as stated: after a failed create no destroy and no other foreign call
\* is made with the invalid handle; after a successful create the handle is
\* destroyed exactly once, also when construction failed later.
C8_AsClaimed ==
    \A a \in Adapters :
        /\ adapter[a].model = NULL =>
                (foreign[a].invalid = {} /\ foreign[a].destroy = 0)
        /\ (adapter[a].pc = "finalized" /\ adapter[a].model >= 1) =>
                (foreign[a].destroy = 1 /\ handles[adapter[a].model] = "destroyed")

====
